---- MODULE Spec2Model ----
(***************************************************************************)
(* A model of the CSV tools of oms_tool:                                   *)
(*   tools/db_filter_by_sku/filter_by_sku.py  (read_sku_list,              *)
(*                                             stream_filter_csv, main)    *)
(*   tools/unique_values/unique_values.py     (read_unique_values,         *)
(*                                             write_output, main)         *)
(*                                                                         *)
(* A string is a sequence of one-character strings, so that str.strip and  *)
(* str.lower are computed and not assumed.  A CSV file is the sequence of  *)
(* records csv.reader yields for it (a blank line yields the empty record  *)
(* <<>>); a key-list file, which the code also reads line by line, is a    *)
(* sequence of lines.  An Optional value is a record [some, v].  The       *)
(* delimiter csv.Sniffer detects is not modelled: a file is read with the  *)
(* delimiter it was written with.                                          *)
(***************************************************************************)
EXTENDS Integers, Sequences, FiniteSets, TLC

(***************************************************************************)
(* Bounds of the model                                                     *)
(***************************************************************************)
MaxRows == 2
MaxLines == 3
MaxVals == 3

(***************************************************************************)
(* Strings                                                                 *)
(***************************************************************************)
IsSpace(c) == c = " "

LowerChar(c) ==
    CASE c = "A" -> "a"
      [] c = "B" -> "b"
      [] c = "L" -> "l"
      [] c = "P" -> "p"
      [] c = "Q" -> "q"
      [] c = "R" -> "r"
      [] c = "S" -> "s"
      [] c = "T" -> "t"
      [] c = "Y" -> "y"
      [] OTHER -> c

\* str.lower()
Lower(s) == [i \in 1..Len(s) |-> LowerChar(s[i])]

RECURSIVE LStrip(_)
LStrip(s) == IF s # <<>> /\ IsSpace(Head(s)) THEN LStrip(Tail(s)) ELSE s

RECURSIVE RStrip(_)
RStrip(s) ==
    IF s # <<>> /\ IsSpace(s[Len(s)]) THEN RStrip(SubSeq(s, 1, Len(s) - 1)) ELSE s

\* str.strip()
Strip(s) == RStrip(LStrip(s))

\* s.lower() if case_insensitive else s
Fold(s, case_insensitive) == IF case_insensitive THEN Lower(s) ELSE s

None == [some |-> FALSE, v |-> <<>>]
NoneSet == [some |-> FALSE, v |-> {}]
Some(x) == [some |-> TRUE, v |-> x]

Max(S) == CHOOSE x \in S : \A y \in S : y <= x
Min2(a, b) == IF a <= b THEN a ELSE b

Range(q) == {q[i] : i \in 1..Len(q)}

SeqsUpTo(S, n) == UNION {[1..k -> S] : k \in 0..n}

(***************************************************************************)
(* csv.DictReader rows.  A row is the pair of the reader's fieldnames and  *)
(* the record read: DictReader builds dict(zip(fieldnames, record)), where *)
(* a later duplicate name wins, and then sets every fieldname beyond the   *)
(* record's length to None.                                                *)
(***************************************************************************)
\* (row.get(col) or ""), also what DictWriter writes for row.get(col, "")
GetOrEmpty(fieldnames, rec, col) ==
    LET lf == Len(fieldnames)
        lr == Len(rec)
        padded == {i \in 1..lf : i > lr /\ fieldnames[i] = col}
        zipped == {i \in 1..Min2(lf, lr) : fieldnames[i] = col}
    IN  IF padded # {} THEN <<>>
        ELSE IF zipped # {} THEN rec[Max(zipped)]
        ELSE <<>>

\* The index of the next record DictReader.__next__ yields after `pos`
\* records were consumed (it skips blank records), or 0 at the end of file.
NextRow(recs, after) ==
    LET rest == {i \in (after + 1)..Len(recs) : recs[i] # <<>>}
    IN  IF rest = {} THEN 0 ELSE CHOOSE i \in rest : \A j \in rest : i <= j

(***************************************************************************)
(* The data the filter is run on                                           *)
(***************************************************************************)
ColArticle == <<"a", "r", "t">>
ColPlant == <<"p", "l">>
ColQty == <<"q", "t", "y">>

Empty == <<>>
SkuA == <<"a">>
SkuAPadded == <<" ", "A", " ">>
SkuUpperA == <<"A">>
SkuB == <<"b">>
PlantS == <<"s">>
PlantUpperS == <<"S", " ">>
Qty == <<"1">>
Star == <<"*">>

FilterHeaders ==
    { <<ColArticle, ColPlant, ColQty>>,
      <<ColArticle, ColQty>>,
      <<ColPlant, ColQty>> }

FilterRecords ==
    { <<SkuA, PlantS, Qty>>,
      <<SkuAPadded, PlantUpperS, Qty>>,
      <<SkuB, PlantS>>,
      <<Empty, PlantS, Qty>>,
      <<SkuA>>,
      <<>> }

FilterFiles ==
    {[exists |-> FALSE, recs |-> <<>>], [exists |-> TRUE, recs |-> <<>>]}
    \cup {[exists |-> TRUE, recs |-> <<h>> \o rs] :
            h \in FilterHeaders, rs \in SeqsUpTo(FilterRecords, MaxRows)}

StaleOutput == [exists |-> TRUE, recs |-> <<<<<<"o", "l", "d">>>>>>]
NoOutput == [exists |-> FALSE, recs |-> <<>>]

FilterArgs ==
    [ article_col : {ColArticle},
      match_values : {{SkuA}, {Empty, SkuUpperA, SkuB}},
      plant_col : {None, Some(ColPlant)},
      plant_values : {NoneSet, Some({}), Some({PlantS})},
      select_columns : {None, Some(<<Star>>), Some(<<ColQty, ColArticle>>),
                        Some(<<ColQty>>)},
      case_insensitive : BOOLEAN,
      invert : BOOLEAN ]

VARIABLES
    inFile,      \* input_csv: [exists, recs]
    outFile,     \* output_csv: [exists, recs]
    args,        \* the arguments of stream_filter_csv
    fpc,         \* where stream_filter_csv is
    fieldnames,  \* reader.fieldnames or []
    out_fields,  \* the writer's fieldnames
    pos,         \* records of inFile the reader has consumed
    written,     \* the counter `written`
    is_match,    \* the last row's final is_match
    readIdx,     \* history: the indices in inFile.recs of the rows read
    outIdx,      \* history: the index in inFile.recs of each row written
    prev         \* the outcome of the call before this one, if any

fvars == <<inFile, outFile, args, fpc, fieldnames, out_fields, pos, written,
           is_match, readIdx, outIdx, prev>>

NoCall ==
    [called |-> FALSE, invert |-> FALSE, outIdx |-> <<>>, written |-> 0,
     refiltered |-> FALSE]

FilterStart(pc) ==
    /\ fpc = pc
    /\ fieldnames = <<>>
    /\ out_fields = <<>>
    /\ pos = 0
    /\ written = 0
    /\ is_match = FALSE
    /\ readIdx = <<>>
    /\ outIdx = <<>>

FilterInit ==
    /\ inFile \in FilterFiles
    /\ outFile \in {NoOutput, StaleOutput}
    /\ args \in FilterArgs
    /\ prev = NoCall
    /\ FilterStart("entry")

IdleArgs ==
    [article_col |-> ColArticle, match_values |-> {}, plant_col |-> None,
     plant_values |-> NoneSet, select_columns |-> None,
     case_insensitive |-> FALSE, invert |-> FALSE]

FilterIdle ==
    /\ inFile = [exists |-> FALSE, recs |-> <<>>]
    /\ outFile = NoOutput
    /\ args = IdleArgs
    /\ prev = NoCall
    /\ FilterStart("idle")

(***************************************************************************)
(* stream_filter_csv                                                       *)
(***************************************************************************)
\* lines 75-81: the input must be a file; the delimiter is sniffed (the
\* records of inFile are the records read with it).
FilterEntry ==
    /\ fpc = "entry"
    /\ fpc' = IF inFile.exists THEN "open" ELSE "FileNotFoundError"
    /\ UNCHANGED <<inFile, outFile, args, fieldnames, out_fields, pos, written,
                   is_match, readIdx, outIdx, prev>>

\* line 98-101
OutFields(select_columns, names) ==
    IF select_columns.some /\ select_columns.v # <<>>
         /\ select_columns.v # <<Star>>
    THEN select_columns.v
    ELSE names

MissingArticleUnchecked(names) == FALSE

\* line 88
MissingArticle(names) == args.article_col \notin Range(names)

\* line 92: `plant_values and plant_col and plant_col not in fieldnames`
MissingPlant(names) ==
    /\ args.plant_values.some /\ args.plant_values.v # {}
    /\ args.plant_col.some /\ args.plant_col.v # <<>>
    /\ args.plant_col.v \notin Range(names)

\* lines 84-104: both files are opened (the output is created or truncated),
\* the header is read and validated, the output header is written.
FilterOpen ==
    /\ fpc = "open"
    /\ LET names == IF inFile.recs = <<>> THEN <<>> ELSE inFile.recs[1]
           fields == OutFields(args.select_columns, names)
       IN  /\ fieldnames' = names
           /\ pos' = Min2(1, Len(inFile.recs))
           /\ IF MissingArticle(names) \/ MissingPlant(names)
              THEN /\ fpc' = "ValueError"
                   /\ outFile' = [exists |-> TRUE, recs |-> <<>>]
                   /\ UNCHANGED out_fields
              ELSE /\ fpc' = "loop"
                   /\ out_fields' = fields
                   /\ outFile' = [exists |-> TRUE, recs |-> <<fields>>]
    /\ UNCHANGED <<inFile, args, written, is_match, readIdx, outIdx, prev>>

PrimaryMatchNoEmptyTest(rec) ==
    LET raw_val == Strip(GetOrEmpty(fieldnames, rec, args.article_col))
        key == Fold(raw_val, args.case_insensitive)
    IN  key \in args.match_values

\* lines 107-109: is_match after the primary test
PrimaryMatch(rec) ==
    LET raw_val == Strip(GetOrEmpty(fieldnames, rec, args.article_col))
        key == Fold(raw_val, args.case_insensitive)
    IN  IF key # <<>> THEN key \in args.match_values ELSE FALSE

\* lines 112-115: is_match after the plant filter
PlantMatch(rec, primary) ==
    IF primary /\ args.plant_values.some
          /\ args.plant_col.some /\ args.plant_col.v # <<>>
    THEN LET plant_raw == Strip(GetOrEmpty(fieldnames, rec, args.plant_col.v))
             plant_key == Fold(plant_raw, args.case_insensitive)
         IN  IF plant_key # <<>> THEN plant_key \in args.plant_values.v ELSE FALSE
    ELSE primary

KeepIgnoresInvert(match) == match

\* lines 116-119
Keep(match) == IF args.invert THEN ~match ELSE match

ProjectedAsRead(rec) == rec

\* line 122: the record written for a kept row
Projected(rec) == [i \in 1..Len(out_fields) |-> GetOrEmpty(fieldnames, rec, out_fields[i])]

IncrementForgotten(n) == n

\* line 123: written += 1
Increment(n) == n + 1

\* lines 106-123: one iteration of `for row in reader`
FilterRow ==
    /\ fpc = "loop"
    /\ NextRow(inFile.recs, pos) # 0
    /\ LET i == NextRow(inFile.recs, pos)
           rec == inFile.recs[i]
           match == PlantMatch(rec, PrimaryMatch(rec))
       IN  /\ pos' = i
           /\ readIdx' = Append(readIdx, i)
           /\ is_match' = match
           /\ IF Keep(match)
              THEN /\ outFile' = [outFile EXCEPT !.recs = Append(@, Projected(rec))]
                   /\ written' = Increment(written)
                   /\ outIdx' = Append(outIdx, i)
              ELSE UNCHANGED <<outFile, written, outIdx>>
    /\ UNCHANGED <<inFile, args, fpc, fieldnames, out_fields, prev>>

\* line 125: the reader is exhausted, the files are closed, `written` is returned
FilterReturn ==
    /\ fpc = "loop"
    /\ NextRow(inFile.recs, pos) = 0
    /\ fpc' = "returned"
    /\ pos' = Len(inFile.recs)
    /\ UNCHANGED <<inFile, outFile, args, fieldnames, out_fields, written,
                   is_match, readIdx, outIdx, prev>>

\* lines 64-74: the caller calls stream_filter_csv once more on the same input
\* with the same arguments but `invert` negated.
FilterAgain ==
    /\ fpc = "returned"
    /\ ~prev.called
    /\ ~prev.refiltered
    /\ prev' = [called |-> TRUE, invert |-> args.invert, outIdx |-> outIdx,
                written |-> written, refiltered |-> FALSE]
    /\ args' = [args EXCEPT !.invert = ~@]
    /\ fpc' = "entry"
    /\ fieldnames' = <<>>
    /\ out_fields' = <<>>
    /\ pos' = 0
    /\ written' = 0
    /\ is_match' = FALSE
    /\ readIdx' = <<>>
    /\ outIdx' = <<>>
    /\ UNCHANGED <<inFile, outFile>>

Quote == "\""

RECURSIVE Doubled(_)
\* every quote character of a field doubled
Doubled(f) ==
    IF f = <<>> THEN <<>>
    ELSE (IF Head(f) = Quote THEN <<Quote, Quote>> ELSE <<Head(f)>>) \o Doubled(Tail(f))

\* csv.writer, QUOTE_MINIMAL: a field holding the delimiter or a quote is
\* written between quotes (no field of the model holds a line end)
WriteField(f) ==
    IF "," \in Range(f) \/ Quote \in Range(f)
    THEN <<Quote>> \o Doubled(f) \o <<Quote>>
    ELSE f

RECURSIVE JoinFields(_)
JoinFields(rec) ==
    IF Len(rec) = 1 THEN WriteField(rec[1])
    ELSE WriteField(rec[1]) \o <<",">> \o JoinFields(Tail(rec))

\* The line csv.writer writes for a record; a record of one empty field is
\* written as a pair of quotes, not as a blank line.
WriterLine(rec) ==
    IF rec = <<>> THEN <<>>
    ELSE IF rec = << <<>> >> THEN <<Quote, Quote>>
    ELSE JoinFields(rec)

RECURSIVE ParseFields(_, _, _)
\* csv.reader with delimiter "," on the rest s of a line, `cur` being the
\* field read so far and `quoted` telling whether s starts inside quotes
ParseFields(s, cur, quoted) ==
    IF s = <<>> THEN <<cur>>
    ELSE IF quoted
    THEN IF Head(s) # Quote THEN ParseFields(Tail(s), Append(cur, Head(s)), TRUE)
         ELSE IF Len(s) >= 2 /\ s[2] = Quote
         THEN ParseFields(Tail(Tail(s)), Append(cur, Quote), TRUE)
         ELSE ParseFields(Tail(s), cur, FALSE)
    ELSE IF Head(s) = Quote /\ cur = <<>> THEN ParseFields(Tail(s), cur, TRUE)
    ELSE IF Head(s) = "," THEN <<cur>> \o ParseFields(Tail(s), <<>>, FALSE)
    ELSE ParseFields(Tail(s), Append(cur, Head(s)), FALSE)

\* The record csv.reader yields for a line; a blank line yields []
ReaderRecord(line) == IF line = <<>> THEN <<>> ELSE ParseFields(line, <<>>, FALSE)

\* The records read from the file a csv writer wrote `recs` to, the file read
\* with the delimiter "," it was written with
ReadBack(recs) == [i \in 1..Len(recs) |-> ReaderRecord(WriterLine(recs[i]))]

\* lines 64-74: the caller calls stream_filter_csv once more, not inverted,
\* with the same arguments, on the file the first call wrote; the output goes
\* to a new file.
FilterOnOutput ==
    /\ fpc = "returned"
    /\ ~args.invert
    /\ ~prev.called
    /\ ~prev.refiltered
    /\ prev' = [prev EXCEPT !.refiltered = TRUE]
    /\ inFile' = [exists |-> TRUE, recs |-> ReadBack(outFile.recs)]
    /\ outFile' = NoOutput
    /\ fpc' = "entry"
    /\ fieldnames' = <<>>
    /\ out_fields' = <<>>
    /\ pos' = 0
    /\ written' = 0
    /\ is_match' = FALSE
    /\ readIdx' = <<>>
    /\ outIdx' = <<>>
    /\ UNCHANGED args


(***************************************************************************)
(* Claims about stream_filter_csv                                          *)
(***************************************************************************)
RecAt(i) == inFile.recs[i]

\* The normalized value of a column of a row: trimmed, lower-cased iff
\* case_insensitive; a missing column reads as the empty string.
NormValue(rec, col) ==
    Fold(Strip(GetOrEmpty(fieldnames, rec, col)), args.case_insensitive)

SecondaryConfigured ==
    args.plant_values.some /\ args.plant_col.some /\ args.plant_col.v # <<>>

FinalMatch(rec) ==
    /\ NormValue(rec, args.article_col) # <<>>
    /\ NormValue(rec, args.article_col) \in args.match_values
    /\ SecondaryConfigured =>
         /\ NormValue(rec, args.plant_col.v) # <<>>
         /\ NormValue(rec, args.plant_col.v) \in args.plant_values.v

\* The rows of the input: the non-blank records after the header.
InputRows == {i \in 2..Len(inFile.recs) : RecAt(i) # <<>>}

\* C1: every row read so far was written iff (final match XOR invert), where
\* a row is a final match iff its normalized primary value is non-empty and
\* in match_values and, when a secondary filter is configured, its normalized
\* secondary value is non-empty and in the secondary set; is_match holds the
\* final match of the last row read.
C1_RowDecision ==
    /\ \A j \in 1..Len(readIdx) :
         (readIdx[j] \in Range(outIdx)) <=> (FinalMatch(RecAt(readIdx[j])) # args.invert)
    /\ readIdx # <<>> => (is_match <=> FinalMatch(RecAt(readIdx[Len(readIdx)])))

\* A padded, upper-case key and plant were matched case-insensitively under a
\* secondary filter, and the inverted run dropped the row.
C1_Witness ==
    /\ fpc = "loop"
    /\ readIdx # <<>>
    /\ RecAt(readIdx[Len(readIdx)]) = <<SkuAPadded, PlantUpperS, Qty>>
    /\ SecondaryConfigured
    /\ is_match
    /\ args.invert
    /\ outIdx = <<>>

\* C2: when the runs with invert=false and invert=true have both returned,
\* every input row was written by exactly one of them and the two counts sum
\* to the number of input rows.
C2_InvertPartition ==
    (fpc = "returned" /\ prev.called) =>
        /\ prev.invert # args.invert
        /\ Range(prev.outIdx) \cup Range(outIdx) = InputRows
        /\ Range(prev.outIdx) \cap Range(outIdx) = {}
        /\ prev.written + written = Cardinality(InputRows)

\* Both runs returned and each wrote a row, one of them a row with an empty key.
C2_Witness ==
    /\ fpc = "returned"
    /\ prev.called
    /\ prev.written > 0
    /\ written > 0
    /\ \E i \in InputRows : NormValue(RecAt(i), args.article_col) = <<>>

StrictlyIncreasing(q) == \A i, j \in 1..Len(q) : i < j => q[i] < q[j]

\* C3: in every state of the loop the rows read are distinct input rows in
\* file order, the rows written are a subsequence of them, the output holds
\* the header and one projected record per row written, in that order, and
\* `written` is their number; the count returned is at most the number of
\* input rows.
C3_OrderAndCount ==
    fpc \in {"loop", "returned"} =>
        /\ StrictlyIncreasing(readIdx)
        /\ Range(readIdx) \subseteq InputRows
        /\ StrictlyIncreasing(outIdx)
        /\ Range(outIdx) \subseteq Range(readIdx)
        /\ written = Len(outIdx)
        /\ Len(outFile.recs) = written + 1
        /\ \A k \in 1..Len(outIdx) : outFile.recs[k + 1] = Projected(RecAt(outIdx[k]))
        /\ fpc = "returned" => written <= Cardinality(InputRows)

\* Two rows were read, the first dropped and the second written.
C3_Witness ==
    /\ fpc = "loop"
    /\ Len(readIdx) = 2
    /\ outIdx = <<readIdx[2]>>
    /\ written = 1

HeaderOf(file) == IF file.recs = <<>> THEN <<>> ELSE file.recs[1]

\* The header lacks the primary column, or the secondary column that the
\* up-front validation covers.
HeaderInvalid ==
    \/ args.article_col \notin Range(HeaderOf(inFile))
    \/ /\ args.plant_values.some /\ args.plant_values.v # {}
       /\ args.plant_col.some
       /\ args.plant_col.v \notin Range(HeaderOf(inFile))

\* C4: with an invalid header the call ends in ValueError and never enters
\* the row loop; in the ValueError state no row was read and the output
\* target is an empty file: neither the header nor a row was written.
C4_ValidationBeforeOutput ==
    /\ (HeaderInvalid /\ fpc \notin {"entry", "open", "FileNotFoundError"})
          => fpc = "ValueError"
    /\ fpc = "ValueError" =>
          /\ HeaderInvalid
          /\ readIdx = <<>>
          /\ pos <= 1
          /\ written = 0
          /\ outFile = [exists |-> TRUE, recs |-> <<>>]

\* A file with data rows whose header lacks the primary column was rejected.
C4_Witness ==
    /\ fpc = "ValueError"
    /\ InputRows # {}
    /\ args.article_col \notin Range(HeaderOf(inFile))

\* C14: in every call with a secondary column name and a secondary set that
\* is not None (the setting under which line 112 applies the per-row
\* secondary check), a header without the secondary column ends the call in
\* ValueError before any row is read: the call never reaches the row loop.
C14_SecondaryValidation ==
    ( /\ SecondaryConfigured
      /\ args.plant_col.v \notin Range(HeaderOf(inFile))
      /\ fpc \notin {"entry", "open", "FileNotFoundError"} )
        => (fpc = "ValueError" /\ readIdx = <<>>)

\* The projection keeps the columns the filter reads: the primary column and,
\* under a non-empty secondary set with a secondary column, that column.
ProjectionKeepsFilterColumns ==
    LET sel == args.select_columns
    IN  (sel.some /\ sel.v # <<>> /\ sel.v # <<Star>>) =>
            /\ args.article_col \in Range(sel.v)
            /\ (args.plant_values.some /\ args.plant_values.v # {}
                   /\ args.plant_col.some /\ args.plant_col.v # <<>>)
                  => args.plant_col.v \in Range(sel.v)

Refiltered == prev.refiltered /\ fpc \in {"returned", "ValueError", "FileNotFoundError"}

Oversize == "oversize"
Comma == ","
Hash == "#"

RECURSIVE Fields(_, _)
\* str.split(","): the fields of s after the field `cur` read so far
Fields(s, cur) ==
    IF s = <<>> THEN <<cur>>
    ELSE IF Head(s) = Comma THEN <<cur>> \o Fields(Tail(s), <<>>)
    ELSE Fields(Tail(s), Append(cur, Head(s)))

CsvRejects(line) == Oversize \in Range(line)

\* The record csv.reader yields for a line it accepts
CsvRecord(line) == IF line = <<>> THEN <<>> ELSE Fields(line, <<>>)

KeyHeader == ColArticle \o <<Comma, "q">>
KeyRowA == <<"a", Comma, "1">>
KeyRowB == <<" ", "B", " ", Comma, "1">>
KeyRowNoSku == <<Comma, "1">>
KeyComment == <<Hash, "a">>
KeyBlank == <<" ">>
KeyOversize == <<Oversize>>

KeyLines ==
    {KeyHeader, ColArticle, KeyRowA, KeyRowB, KeyRowNoSku, KeyComment, KeyBlank,
     <<>>, KeyOversize}

NoKeyFile == [exists |-> FALSE, lines |-> <<>>]

KeyFiles ==
    {NoKeyFile}
    \cup {[exists |-> TRUE, lines |-> ls] : ls \in SeqsUpTo(KeyLines, MaxLines)}

SkuLiterals ==
    {None, Some(<<>>), Some(<<SkuAPadded>>), Some(<<KeyBlank, SkuB, SkuB, Empty>>)}

SkuArgs ==
    [ sku_values : SkuLiterals,
      sku_file : BOOLEAN,
      sku_file_column : {ColArticle},
      case_insensitive : BOOLEAN ]

VARIABLES
    keyFile,      \* sku_file: [exists, lines]
    skuArgs,      \* the arguments of read_sku_list
    spc,          \* where read_sku_list is
    values,       \* the set `values`
    kfieldnames,  \* reader.fieldnames
    kpos,         \* lines of keyFile the csv reader has consumed
    fileKeys      \* history: the members of `values` the file path added

svars == <<keyFile, skuArgs, spc, values, kfieldnames, kpos, fileKeys>>

SkuStart(pc) ==
    /\ spc = pc
    /\ values = {}
    /\ kfieldnames = <<>>
    /\ kpos = 0
    /\ fileKeys = {}

SkuInit ==
    /\ keyFile \in KeyFiles
    /\ skuArgs \in SkuArgs
    /\ ~skuArgs.sku_file => keyFile = NoKeyFile
    /\ SkuStart("entry")

SkuIdle ==
    /\ keyFile = NoKeyFile
    /\ skuArgs = [sku_values |-> None, sku_file |-> FALSE,
                  sku_file_column |-> ColArticle, case_insensitive |-> FALSE]
    /\ SkuStart("idle")

\* lines 29-31, 43-45, 50-52: s = v.strip(), added normalized
Normalized(v) == Fold(Strip(v), skuArgs.case_insensitive)

\* lines 25-31: the keys of the literal values
SkuFromValues ==
    /\ spc = "entry"
    /\ values' =
         IF skuArgs.sku_values.some /\ skuArgs.sku_values.v # <<>>
         THEN {Normalized(v) : v \in {w \in Range(skuArgs.sku_values.v) : Strip(w) # <<>>}}
         ELSE {}
    /\ spc' = "file"
    /\ UNCHANGED <<keyFile, skuArgs, kfieldnames, kpos, fileKeys>>

\* line 41
HasColumn(names) == names # <<>> /\ skuArgs.sku_file_column \in Range(names)

\* lines 34-41: no file, a missing file, or the file is opened and
\* reader.fieldnames reads its first line (csv.Error leads to line 53).
SkuOpenFile ==
    /\ spc = "file"
    /\ IF ~skuArgs.sku_file
       THEN spc' = "returned" /\ UNCHANGED <<kfieldnames, kpos>>
       ELSE IF ~keyFile.exists
       THEN spc' = "FileNotFoundError" /\ UNCHANGED <<kfieldnames, kpos>>
       ELSE IF keyFile.lines = <<>>
       THEN spc' = "else_lines" /\ UNCHANGED <<kfieldnames, kpos>>
       ELSE IF CsvRejects(keyFile.lines[1])
       THEN spc' = "except_lines" /\ kpos' = 1 /\ UNCHANGED kfieldnames
       ELSE /\ kfieldnames' = CsvRecord(keyFile.lines[1])
            /\ kpos' = 1
            /\ spc' = IF HasColumn(CsvRecord(keyFile.lines[1]))
                      THEN "rows" ELSE "else_lines"
    /\ UNCHANGED <<keyFile, skuArgs, values, fileKeys>>

\* The next line after `pos` that is not empty: DictReader skips the records []
NextLine(lines, after) ==
    LET rest == {i \in (after + 1)..Len(lines) : lines[i] # <<>>}
    IN  IF rest = {} THEN 0 ELSE CHOOSE i \in rest : \A j \in rest : i <= j

\* lines 42-45: one iteration of `for row in reader`, the end of the loop, or
\* csv.Error raised by the reader (to line 53)
SkuRow ==
    /\ spc = "rows"
    /\ LET i == NextLine(keyFile.lines, kpos)
       IN  IF i = 0
           THEN /\ spc' = "returned"
                /\ kpos' = Len(keyFile.lines)
                /\ UNCHANGED <<values, fileKeys>>
           ELSE IF CsvRejects(keyFile.lines[i])
           THEN /\ spc' = "except_lines"
                /\ kpos' = i
                /\ UNCHANGED <<values, fileKeys>>
           ELSE LET s == Strip(GetOrEmpty(kfieldnames, CsvRecord(keyFile.lines[i]),
                                          skuArgs.sku_file_column))
                    k == Fold(s, skuArgs.case_insensitive)
                IN  /\ kpos' = i
                    /\ spc' = "rows"
                    /\ values' = IF s # <<>> THEN values \cup {k} ELSE values
                    /\ fileKeys' = IF s # <<>> THEN fileKeys \cup {k} ELSE fileKeys
    /\ UNCHANGED <<keyFile, skuArgs, kfieldnames>>

\* lines 49-52 and 56-59: f.seek(0), then every line that is not blank and
\* is no comment
LineKeys(lines) ==
    {Normalized(l) : l \in {m \in Range(lines) :
                              Strip(m) # <<>> /\ Head(Strip(m)) # Hash}}

\* lines 46-52: no header, or the header lacks the column
SkuElseLines ==
    /\ spc = "else_lines"
    /\ values' = values \cup LineKeys(keyFile.lines)
    /\ fileKeys' = fileKeys \cup LineKeys(keyFile.lines)
    /\ kpos' = Len(keyFile.lines)
    /\ spc' = "returned"
    /\ UNCHANGED <<keyFile, skuArgs, kfieldnames>>

\* lines 53-59: csv.Error was raised; `values` keeps what the rows added
SkuExceptLines ==
    /\ spc = "except_lines"
    /\ values' = values \cup LineKeys(keyFile.lines)
    /\ fileKeys' = fileKeys \cup LineKeys(keyFile.lines)
    /\ kpos' = Len(keyFile.lines)
    /\ spc' = "returned"
    /\ UNCHANGED <<keyFile, skuArgs, kfieldnames>>

(***************************************************************************)
(* Claims about read_sku_list                                              *)
(***************************************************************************)
\* {normalize(v) : v a literal, trim(v) non-empty}
LiteralKeys ==
    IF skuArgs.sku_values.some
    THEN {Normalized(v) : v \in Range(skuArgs.sku_values.v)} \ {<<>>}
    ELSE {}

KeyFileHeader == IF keyFile.lines = <<>> THEN <<>> ELSE CsvRecord(keyFile.lines[1])

\* Structured parsing fails: the csv reader rejects the header or a later line.
ParsingFails == \E i \in 1..Len(keyFile.lines) : CsvRejects(keyFile.lines[i])

\* The file has no header, its header lacks the hint column, or structured
\* parsing fails.
FallbackCase ==
    \/ ParsingFails
    \/ KeyFileHeader = <<>>
    \/ skuArgs.sku_file_column \notin Range(KeyFileHeader)

\* The normalized lines of the whole file that are not blank after trimming
\* and do not begin with '#'.
LineModeKeys ==
    {Normalized(keyFile.lines[i]) : i \in
        {j \in 1..Len(keyFile.lines) :
            Strip(keyFile.lines[j]) # <<>> /\ Strip(keyFile.lines[j])[1] # Hash}}

\* The normalized non-empty values of the hint column of the rows after the
\* header.
ColumnKeys ==
    {Normalized(GetOrEmpty(KeyFileHeader, CsvRecord(keyFile.lines[i]),
                           skuArgs.sku_file_column)) :
        i \in {j \in 2..Len(keyFile.lines) : keyFile.lines[j] # <<>>}} \ {<<>>}

\* The keys of the key file: none without a file, the lines in the fallback
\* case, the column's values otherwise.
KeyFileKeys ==
    IF ~skuArgs.sku_file THEN {}
    ELSE IF FallbackCase THEN LineModeKeys
    ELSE ColumnKeys

\* C6: the set returned is the union of the literals' keys and the key
\* file's keys, and the empty string is no member of it.
C6_Union ==
    spc = "returned" =>
        /\ values = LiteralKeys \cup KeyFileKeys
        /\ <<>> \notin values

\* C7: in the fallback case the file contributes exactly the normalized
\* lines of the whole file that are not blank and no comment; no value of
\* the abandoned structured parse is a member unless it is such a line.
C7_FallbackLines ==
    (spc = "returned" /\ skuArgs.sku_file /\ FallbackCase) =>
        fileKeys = LineModeKeys

(***************************************************************************)
(* main of filter_by_sku.py                                                *)
(***************************************************************************)
ColumnsAll == <<"*">>
ColumnsQtyArt == ColQty \o <<Comma, " ">> \o ColArticle

CliArgs ==
    [ sku : {None, Some(<<SkuAPadded>>), Some(<<KeyBlank>>)},
      sku_file : BOOLEAN,
      sku_file_column : {ColArticle},
      csv_article_column : {ColArticle},
      csv_plant_column : {ColPlant},
      columns : {ColumnsAll, ColumnsQtyArt},
      case_insensitive : BOOLEAN,
      invert : BOOLEAN,
      plant : {None, Some(<<KeyBlank>>), Some(<<PlantUpperS>>)} ]

KeyUpperArt == <<"A", "R", "T">>

MainKeyFiles ==
    { NoKeyFile,
      [exists |-> TRUE, lines |-> <<KeyComment, KeyBlank>>],
      [exists |-> TRUE, lines |-> <<KeyHeader, KeyRowNoSku>>],
      [exists |-> TRUE, lines |-> <<KeyHeader, KeyRowB, KeyOversize>>],
      [exists |-> TRUE, lines |-> <<KeyUpperArt, SkuB>>] }

MainInputs ==
    { [exists |-> FALSE, recs |-> <<>>],
      [exists |-> TRUE, recs |-> << <<ColPlant, ColQty>>, <<PlantS, Qty>> >>],
      [exists |-> TRUE, recs |-> << <<ColArticle, ColQty>>, <<SkuA, Qty>> >>],
      [exists |-> TRUE,
       recs |-> << <<ColArticle, ColPlant, ColQty>>, <<SkuB, PlantS, Qty>>,
                   <<SkuA, PlantS, Qty>> >>],
      [exists |-> TRUE,
       recs |-> << <<ColArticle, ColPlant, ColQty>>, <<ColArticle, PlantS, Qty>>,
                   <<SkuAPadded, PlantUpperS, Qty>> >>] }

VARIABLES
    cli,     \* the parsed command line (argparse's namespace)
    mpc,     \* where main is
    status,  \* main's return value, -1 while it runs
    mprev    \* the outcome of the run before this one, if any

mvars == <<cli, mpc, status, mprev>>

NoRun ==
    [called |-> FALSE, status |-> -1, outIdx |-> <<>>, structured |-> FALSE,
     keys |-> "keep", plant |-> "keep", data |-> "keep"]

IdleCli ==
    [sku |-> None, sku_file |-> FALSE, sku_file_column |-> ColArticle,
     csv_article_column |-> ColArticle, csv_plant_column |-> ColPlant,
     columns |-> ColumnsAll, case_insensitive |-> FALSE, invert |-> FALSE,
     plant |-> None]

MainIdle ==
    /\ cli = IdleCli
    /\ mpc = "idle"
    /\ status = -1
    /\ mprev = NoRun

MainInit ==
    /\ cli \in CliArgs
    /\ mpc = "start"
    /\ status = -1
    /\ mprev = NoRun
    /\ keyFile \in MainKeyFiles
    /\ ~cli.sku_file => keyFile = NoKeyFile
    /\ skuArgs = [sku_values |-> None, sku_file |-> FALSE,
                  sku_file_column |-> ColArticle, case_insensitive |-> FALSE]
    /\ SkuStart("idle")
    /\ inFile \in MainInputs
    /\ outFile \in {NoOutput, StaleOutput}
    /\ args = IdleArgs
    /\ prev = NoCall
    /\ FilterStart("idle")

\* lines 181-187: read_sku_list is called with the command line's values
MainReadSkuList ==
    /\ mpc = "start"
    /\ skuArgs' = [sku_values |-> cli.sku, sku_file |-> cli.sku_file,
                   sku_file_column |-> cli.sku_file_column,
                   case_insensitive |-> cli.case_insensitive]
    /\ spc' = "entry"
    /\ mpc' = "read_sku_list"
    /\ UNCHANGED <<cli, status, mprev, keyFile, values, kfieldnames, kpos, fileKeys,
                   fvars>>

EmptyCriteriaIgnored(match_values) == FALSE

\* line 188: `if not match_values`
EmptyCriteria(match_values) == match_values = {}

\* lines 188-193
MainNoCriteria ==
    /\ mpc = "read_sku_list"
    /\ spc = "returned"
    /\ EmptyCriteria(values)
    /\ status' = 2
    /\ mpc' = "exit"
    /\ UNCHANGED <<cli, mprev, svars, fvars>>

PlantValuesNotFolded(plant, case_insensitive) ==
    IF plant.some /\ plant.v # <<>>
    THEN LET kept == {p \in Range(plant.v) : p # <<>> /\ Strip(p) # <<>>}
             set == {Strip(p) : p \in kept}
         IN  IF set = {} THEN NoneSet ELSE Some(set)
    ELSE NoneSet

\* lines 195-201
PlantValues(plant, case_insensitive) ==
    IF plant.some /\ plant.v # <<>>
    THEN LET kept == {p \in Range(plant.v) : p # <<>> /\ Strip(p) # <<>>}
             set == {Fold(Strip(p), case_insensitive) : p \in kept}
         IN  IF set = {} THEN NoneSet ELSE Some(set)
    ELSE NoneSet

\* lines 203-205, 214
SelectColumns(columns) ==
    LET parts == Fields(columns, <<>>)
        cols == IF columns # <<>>
                THEN [i \in 1..Len(parts) |-> Strip(parts[i])]
                ELSE <<Star>>
    IN  IF cols = <<Star>> THEN None ELSE Some(cols)

\* lines 195-217: stream_filter_csv is called
MainStreamFilter ==
    /\ mpc = "read_sku_list"
    /\ spc = "returned"
    /\ ~EmptyCriteria(values)
    /\ args' = [article_col |-> cli.csv_article_column,
                match_values |-> values,
                plant_col |-> Some(cli.csv_plant_column),
                plant_values |-> PlantValues(cli.plant, cli.case_insensitive),
                select_columns |-> SelectColumns(cli.columns),
                case_insensitive |-> cli.case_insensitive,
                invert |-> cli.invert]
    /\ fpc' = "entry"
    /\ mpc' = "stream_filter_csv"
    /\ UNCHANGED <<cli, status, mprev, svars, inFile, outFile, fieldnames,
                   out_fields, pos, written, is_match, readIdx, outIdx, prev>>

\* lines 218-219
MainWrote ==
    /\ mpc = "stream_filter_csv"
    /\ fpc = "returned"
    /\ status' = 0
    /\ mpc' = "exit"
    /\ UNCHANGED <<cli, mprev, svars, fvars>>

\* lines 220-222: `except Exception`
MainError ==
    /\ \/ mpc = "read_sku_list" /\ spc = "FileNotFoundError"
       \/ mpc = "stream_filter_csv" /\ fpc \in {"FileNotFoundError", "ValueError"}
    /\ status' = 1
    /\ mpc' = "exit"
    /\ UNCHANGED <<cli, mprev, svars, fvars>>

UpperChar(c) ==
    CASE c = "a" -> "A"
      [] c = "b" -> "B"
      [] c = "l" -> "L"
      [] c = "p" -> "P"
      [] c = "q" -> "Q"
      [] c = "r" -> "R"
      [] c = "s" -> "S"
      [] c = "t" -> "T"
      [] c = "y" -> "Y"
      [] OTHER -> c

\* A change of letter case of a string: none, every letter to upper case,
\* every letter to lower case, or the case of every letter swapped
Recase(s, how) ==
    [i \in 1..Len(s) |->
        CASE how = "upper" -> UpperChar(s[i])
          [] how = "lower" -> LowerChar(s[i])
          [] how = "swap" -> (IF UpperChar(s[i]) # s[i] THEN UpperChar(s[i])
                              ELSE LowerChar(s[i]))
          [] OTHER -> s[i]]

RecaseAll(list, how) ==
    IF list.some THEN Some([i \in 1..Len(list.v) |-> Recase(list.v[i], how)]) ELSE list

\* line 41: the first line of the key file is a header with the key column
KeyFileStructured(file, column) ==
    /\ file.exists
    /\ file.lines # <<>>
    /\ ~CsvRejects(file.lines[1])
    /\ column \in Range(CsvRecord(file.lines[1]))

\* The key file with its key values recased: every line but a header with
\* the key column
RecaseKeyFile(file, column, how) ==
    [file EXCEPT !.lines =
        [i \in 1..Len(file.lines) |->
            IF i = 1 /\ KeyFileStructured(file, column) THEN file.lines[1]
            ELSE Recase(file.lines[i], how)]]

\* The input with the cells of the primary and the secondary column recased
RecaseRows(file, cols, how) ==
    [file EXCEPT !.recs =
        [i \in 1..Len(file.recs) |->
            IF i = 1 THEN file.recs[1]
            ELSE [j \in 1..Len(file.recs[i]) |->
                    IF j <= Len(file.recs[1]) /\ file.recs[1][j] \in cols
                    THEN Recase(file.recs[i][j], how)
                    ELSE file.recs[i][j]]]]

KeyRecasings == {"keep", "upper", "lower"}
PlantRecasings == {"keep", "swap"}
DataRecasings == {"keep", "swap"}

\* lines 128-179: main has exited; it is run again, case-insensitive as
\* before, after a change of letter case of the key values (--sku and the key
\* file), of the --plant values and of the input's primary and secondary
\* columns; the output goes to a new file.
MainRecased ==
    /\ mpc = "exit"
    /\ cli.case_insensitive
    /\ ~mprev.called
    /\ \E hk \in KeyRecasings, hp \in PlantRecasings, hd \in DataRecasings :
         /\ cli' = [cli EXCEPT !.sku = RecaseAll(@, hk), !.plant = RecaseAll(@, hp)]
         /\ keyFile' = RecaseKeyFile(keyFile, cli.sku_file_column, hk)
         /\ inFile' = RecaseRows(inFile,
                                 {cli.csv_article_column, cli.csv_plant_column}, hd)
         /\ mprev' = [called |-> TRUE, status |-> status, outIdx |-> outIdx,
                      structured |-> KeyFileStructured(keyFile, cli.sku_file_column),
                      keys |-> hk, plant |-> hp, data |-> hd]
    /\ mpc' = "start"
    /\ status' = -1
    /\ skuArgs' = [sku_values |-> None, sku_file |-> FALSE,
                   sku_file_column |-> ColArticle, case_insensitive |-> FALSE]
    /\ spc' = "idle"
    /\ values' = {}
    /\ kfieldnames' = <<>>
    /\ kpos' = 0
    /\ fileKeys' = {}
    /\ outFile' = NoOutput
    /\ args' = IdleArgs
    /\ fpc' = "idle"
    /\ fieldnames' = <<>>
    /\ out_fields' = <<>>
    /\ pos' = 0
    /\ written' = 0
    /\ is_match' = FALSE
    /\ readIdx' = <<>>
    /\ outIdx' = <<>>
    /\ UNCHANGED prev

(***************************************************************************)
(* Claims about main                                                       *)
(***************************************************************************)
\* C5: when the match set read_sku_list returned is empty, main exits with
\* status 2, stream_filter_csv was never called and the output target is as
\* it was; status 2 is the exit of no other run: a run that wrote rows, or
\* none, exits with 0, and FileNotFoundError or ValueError with 1.
C5_EmptyCriteria ==
    mpc = "exit" =>
        /\ (spc = "returned" /\ values = {}) =>
              /\ status = 2
              /\ fpc = "idle"
              /\ outFile \in {NoOutput, StaleOutput}
        /\ status = 2 => (spc = "returned" /\ values = {})
        /\ fpc = "returned" => status = 0
        /\ (spc = "FileNotFoundError" \/ fpc \in {"FileNotFoundError", "ValueError"})
              => status = 1

\* A key file of comments and blank lines gave no key: exit 2, and the stale
\* output is still there.
C5_Witness ==
    /\ mpc = "exit"
    /\ status = 2
    /\ keyFile.exists /\ keyFile.lines # <<>>
    /\ outFile = StaleOutput

ColX == <<"x">>
ColV == <<"v">>
DefaultColumn == <<"v", "a", "l", "u", "e">>

ValUpperB == <<"B">>
ValA == <<"a">>
ValB == <<"b">>
ValAPadded == <<" ", "A", " ">>

UniqueHeaders == { <<ColX, ColV>>, <<ColX>> }

UniqueRecords ==
    { <<ValUpperB>>,
      <<ValA>>,
      <<ValB, ValA>>,
      <<ValAPadded, ValUpperB>>,
      <<Empty, ValB>>,
      <<>> }

UniqueFiles ==
    {[exists |-> FALSE, recs |-> <<>>], [exists |-> TRUE, recs |-> <<>>],
     [exists |-> TRUE, recs |-> << <<>>, <<ValA>> >>]}
    \cup {[exists |-> TRUE, recs |-> <<h>> \o rs] :
            h \in UniqueHeaders, rs \in SeqsUpTo(UniqueRecords, MaxVals)}

UniqueArgs ==
    [ column : {None, Some(ColV)},
      no_header : BOOLEAN,
      case_insensitive : BOOLEAN,
      sort_values : BOOLEAN,
      exactly_once : BOOLEAN ]

VARIABLES
    uFile,        \* input_csv: [exists, recs]
    uargs,        \* the arguments of read_unique_values
    upc,          \* where read_unique_values is
    ufieldnames,  \* reader.fieldnames
    col,          \* the column read
    upos,         \* records of uFile the reader has consumed
    counts,       \* key -> occurrences
    order,        \* the keys in first-seen order
    display,      \* key -> the value first seen
    uvalues,      \* the list returned
    seen,         \* history: the non-empty trimmed values accumulated, in order
    uprev         \* the outcome of the call before this one, if any

uvars == <<uFile, uargs, upc, ufieldnames, col, upos, counts, order, display,
           uvalues, seen, uprev>>

EmptyDict == [k \in {} |-> 0]

NoUniqueCall ==
    [called |-> FALSE, sort_values |-> FALSE, exactly_once |-> FALSE, values |-> <<>>]

UniqueStart(pc) ==
    /\ upc = pc
    /\ ufieldnames = <<>>
    /\ col = <<>>
    /\ upos = 0
    /\ counts = EmptyDict
    /\ order = <<>>
    /\ display = EmptyDict
    /\ uvalues = <<>>
    /\ seen = <<>>

UniqueInit ==
    /\ uFile \in UniqueFiles
    /\ uargs \in UniqueArgs
    /\ uprev = NoUniqueCall
    /\ UniqueStart("entry")

UniqueIdle ==
    /\ uFile = [exists |-> FALSE, recs |-> <<>>]
    /\ uargs = [column |-> None, no_header |-> FALSE, case_insensitive |-> FALSE,
                sort_values |-> FALSE, exactly_once |-> FALSE]
    /\ uprev = NoUniqueCall
    /\ UniqueStart("idle")

\* lines 27-30
UniqueEntry ==
    /\ upc = "entry"
    /\ upc' = IF uFile.exists THEN "open" ELSE "FileNotFoundError"
    /\ UNCHANGED <<uFile, uargs, ufieldnames, col, upos, counts, order, display,
                   uvalues, seen, uprev>>

\* line 57: column or (reader.fieldnames[0] if reader.fieldnames else "value")
ResolveColumn(column, names) ==
    IF column.some /\ column.v # <<>> THEN column.v
    ELSE IF names # <<>> THEN names[1]
    ELSE DefaultColumn

\* lines 36-42, 56-61, 73: the file is opened; with a header the column is
\* resolved and validated; an empty file has fieldnames None and is read
\* again with csv.reader (lines 41-54, the loop of lines 74-85).
UniqueOpen ==
    /\ upc = "open"
    /\ IF uargs.no_header \/ uFile.recs = <<>>
       THEN /\ upc' = "reader"
            /\ UNCHANGED <<ufieldnames, col, upos>>
       ELSE LET names == uFile.recs[1]
                c == ResolveColumn(uargs.column, names)
            IN  /\ ufieldnames' = names
                /\ upos' = 1
                /\ IF c \notin Range(names)
                   THEN upc' = "ValueError" /\ UNCHANGED col
                   ELSE upc' = "dict" /\ col' = c
    /\ UNCHANGED <<uFile, uargs, counts, order, display, uvalues, seen, uprev>>

PrependKey(keys, key) == <<key>> \o keys

\* line 68: order.append(key)
AppendKey(keys, key) == Append(keys, key)

AccumulateLastSeen(val) ==
    LET key == Fold(val, uargs.case_insensitive)
        first == key \notin DOMAIN counts
    IN  /\ seen' = Append(seen, val)
        /\ order' = IF first THEN AppendKey(order, key) ELSE order
        /\ display' = [k \in DOMAIN display \cup {key} |->
                          IF k = key THEN val ELSE display[k]]
        /\ counts' = [k \in DOMAIN counts \cup {key} |->
                        IF k = key
                        THEN (IF first THEN 0 ELSE counts[k]) + 1
                        ELSE counts[k]]

AccumulateCountsOnce(val) ==
    LET key == Fold(val, uargs.case_insensitive)
        first == key \notin DOMAIN counts
    IN  /\ seen' = Append(seen, val)
        /\ order' = IF first THEN AppendKey(order, key) ELSE order
        /\ display' = IF first
                      THEN [k \in DOMAIN display \cup {key} |->
                              IF k = key THEN val ELSE display[k]]
                      ELSE display
        /\ counts' = [k \in DOMAIN counts \cup {key} |->
                        IF k = key THEN 1 ELSE counts[k]]

\* lines 64-71 (49-54, 80-85): val is not empty
Accumulate(val) ==
    LET key == Fold(val, uargs.case_insensitive)
        first == key \notin DOMAIN counts
    IN  /\ seen' = Append(seen, val)
        /\ order' = IF first THEN AppendKey(order, key) ELSE order
        /\ display' = IF first
                      THEN [k \in DOMAIN display \cup {key} |->
                              IF k = key THEN val ELSE display[k]]
                      ELSE display
        /\ counts' = [k \in DOMAIN counts \cup {key} |->
                        IF k = key
                        THEN (IF first THEN 0 ELSE counts[k]) + 1
                        ELSE counts[k]]

\* lines 62-71: one iteration of `for row in reader`, or its end
UniqueDictRow ==
    /\ upc = "dict"
    /\ LET i == NextRow(uFile.recs, upos)
       IN  IF i = 0
           THEN /\ upc' = "select"
                /\ upos' = Len(uFile.recs)
                /\ UNCHANGED <<counts, order, display, seen>>
           ELSE LET val == Strip(GetOrEmpty(ufieldnames, uFile.recs[i], col))
                IN  /\ upos' = i
                    /\ upc' = "dict"
                    /\ IF val = <<>>
                       THEN UNCHANGED <<counts, order, display, seen>>
                       ELSE Accumulate(val)
    /\ UNCHANGED <<uFile, uargs, ufieldnames, col, uvalues, uprev>>

\* lines 73-85 (and 42-54): one iteration of `for row in rdr`, or its end
UniqueReaderRow ==
    /\ upc = "reader"
    /\ IF upos = Len(uFile.recs)
       THEN /\ upc' = "select"
            /\ UNCHANGED <<upos, counts, order, display, seen>>
       ELSE LET row == uFile.recs[upos + 1]
                val == IF row = <<>> THEN <<>> ELSE Strip(row[1])
            IN  /\ upos' = upos + 1
                /\ upc' = "reader"
                /\ IF row = <<>> \/ val = <<>>
                   THEN UNCHANGED <<counts, order, display, seen>>
                   ELSE Accumulate(val)
    /\ UNCHANGED <<uFile, uargs, ufieldnames, col, uvalues, uprev>>

RECURSIVE DisplayOf(_, _)
\* [display[k] for k in keys if keep[k]]
DisplayOf(keys, keep) ==
    IF keys = <<>> THEN <<>>
    ELSE (IF Head(keys) \in keep THEN <<display[Head(keys)]>> ELSE <<>>)
         \o DisplayOf(Tail(keys), keep)

SelectedAtLeastOnce(exactly_once) ==
    DisplayOf(order, {k \in DOMAIN counts : counts[k] >= 1})

\* lines 87-90
Selected(exactly_once) ==
    IF exactly_once
    THEN DisplayOf(order, {k \in DOMAIN counts : counts[k] = 1})
    ELSE DisplayOf(order, DOMAIN counts)

\* ord(c)
Ord(c) ==
    CASE c = " " -> 32
      [] c = "," -> 44
      [] c = "A" -> 65
      [] c = "B" -> 66
      [] c = "a" -> 97
      [] c = "b" -> 98
      [] c = "v" -> 118
      [] c = "x" -> 120
      [] OTHER -> 0

RECURSIVE StrLess(_, _)
\* s < t on str
StrLess(s, t) ==
    IF t = <<>> THEN FALSE
    ELSE IF s = <<>> THEN TRUE
    ELSE IF Ord(Head(s)) # Ord(Head(t)) THEN Ord(Head(s)) < Ord(Head(t))
    ELSE StrLess(Tail(s), Tail(t))

SortKeyRaw(s, case_insensitive) == s

\* line 93: key=lambda s: s.lower() if case_insensitive else s
SortKey(s, case_insensitive) == IF case_insensitive THEN Lower(s) ELSE s

RECURSIVE Insert(_, _, _)
\* x put into the sorted list q behind every element not above it
Insert(q, x, ci) ==
    IF q = <<>> THEN <<x>>
    ELSE IF StrLess(SortKey(x, ci), SortKey(Head(q), ci)) THEN <<x>> \o q
    ELSE <<Head(q)>> \o Insert(Tail(q), x, ci)

RECURSIVE SortedBy(_, _)
\* sorted(q, key=...): a stable sort
SortedBy(q, ci) ==
    IF q = <<>> THEN <<>>
    ELSE Insert(SortedBy(SubSeq(q, 1, Len(q) - 1), ci), q[Len(q)], ci)

\* lines 87-95
UniqueSelect ==
    /\ upc = "select"
    /\ uvalues' = IF uargs.sort_values
                  THEN SortedBy(Selected(uargs.exactly_once), uargs.case_insensitive)
                  ELSE Selected(uargs.exactly_once)
    /\ upc' = "returned"
    /\ UNCHANGED <<uFile, uargs, ufieldnames, col, upos, counts, order, display,
                   seen, uprev>>

\* lines 19-26: the caller calls read_unique_values once more on the same
\* input, with sort_values or exactly_once, false so far, now true.
UniqueAgain ==
    /\ upc = "returned"
    /\ ~uprev.called
    /\ \E flip \in {"sort_values", "exactly_once"} :
         /\ ~uargs[flip]
         /\ uargs' = [uargs EXCEPT ![flip] = TRUE]
    /\ uprev' = [called |-> TRUE, sort_values |-> uargs.sort_values,
                 exactly_once |-> uargs.exactly_once, values |-> uvalues]
    /\ upc' = "entry"
    /\ ufieldnames' = <<>>
    /\ col' = <<>>
    /\ upos' = 0
    /\ counts' = EmptyDict
    /\ order' = <<>>
    /\ display' = EmptyDict
    /\ uvalues' = <<>>
    /\ seen' = <<>>
    /\ UNCHANGED uFile

(***************************************************************************)
(* Claims about read_unique_values                                         *)
(***************************************************************************)
\* The rows of the input, in file order: with a header the non-blank records
\* after it, without one every non-blank record.
UniqueRows ==
    LET from == IF uargs.no_header THEN 1 ELSE 2
    IN  {i \in from..Len(uFile.recs) : uFile.recs[i] # <<>>}

\* The trimmed value of the target column in row i
TargetValue(i) ==
    IF uargs.no_header
    THEN Strip(uFile.recs[i][1])
    ELSE Strip(GetOrEmpty(uFile.recs[1], uFile.recs[i], col))

\* The normalized key of a trimmed value
KeyOf(val) == Fold(val, uargs.case_insensitive)

\* The rows with a non-empty value
Observed == {i \in UniqueRows : TargetValue(i) # <<>>}

\* The rows in which a key occurs for the first time
FirstSeen ==
    {i \in Observed :
        \A j \in Observed : j < i => KeyOf(TargetValue(j)) # KeyOf(TargetValue(i))}

\* The n-th element of a set of numbers, in increasing order
Nth(S, n) == CHOOSE i \in S : Cardinality({j \in S : j < i}) = n - 1

Occurrences(key) == Cardinality({i \in Observed : KeyOf(TargetValue(i)) = key})

IsSubsequence(q, r) ==
    \E f \in [1..Len(q) -> 1..Len(r)] :
        /\ \A i \in 1..Len(q) : q[i] = r[f[i]]
        /\ \A i, j \in 1..Len(q) : i < j => f[i] < f[j]

\* C8: without sort_values and exactly_once the list returned has one entry
\* per distinct non-empty normalized key of the target column, in the order
\* of the keys' first occurrences; rows with an empty value contribute nothing.
C8_FirstSeenOrder ==
    (upc = "returned" /\ ~uargs.sort_values /\ ~uargs.exactly_once) =>
        /\ Len(uvalues) = Cardinality(FirstSeen)
        /\ \A n \in 1..Len(uvalues) :
             KeyOf(uvalues[n]) = KeyOf(TargetValue(Nth(FirstSeen, n)))

\* Three rows were observed after a row with an empty value, the third
\* repeating the key of the first, and two entries were returned.
C8_Witness ==
    /\ upc = "returned" /\ ~uargs.sort_values /\ ~uargs.exactly_once
    /\ Cardinality(Observed) = 3
    /\ Cardinality(UniqueRows) > 3
    /\ Len(uvalues) = 2
    /\ \E i \in Observed : i \notin FirstSeen /\ \A j \in Observed : j <= i

\* C9: the list returned with exactly_once is a subsequence of the list
\* returned without it, its keys are the keys that occur exactly once in the
\* whole input, and the values it lacks are those whose key occurs more than
\* once.
C9_ExactlyOnceSubset ==
    (upc = "returned" /\ uprev.called /\ uargs.exactly_once /\ ~uprev.exactly_once) =>
        /\ uargs.sort_values = uprev.sort_values
        /\ IsSubsequence(uvalues, uprev.values)
        /\ {KeyOf(v) : v \in Range(uvalues)}
              = {KeyOf(TargetValue(i)) : i \in {j \in Observed :
                                                  Occurrences(KeyOf(TargetValue(j))) = 1}}
        /\ Range(uprev.values) \ Range(uvalues)
              = {v \in Range(uprev.values) : Occurrences(KeyOf(v)) > 1}

\* Of two keys the first occurred twice, differently cased, and was left out.
C9_Witness ==
    /\ upc = "returned" /\ uprev.called /\ uargs.exactly_once /\ ~uprev.exactly_once
    /\ uargs.case_insensitive
    /\ Len(uprev.values) = 2
    /\ Len(uvalues) = 1
    /\ uvalues[1] = uprev.values[2]
    /\ \E i, j \in Observed : TargetValue(i) # TargetValue(j)
                                /\ KeyOf(TargetValue(i)) = KeyOf(TargetValue(j))

\* The place of a value in the list returned without sort_values
PlaceIn(q, v) == CHOOSE i \in 1..Len(q) : q[i] = v

\* The sort key of a display value: lower-cased iff case_insensitive
ClaimedSortKey(v) == IF uargs.case_insensitive THEN Lower(v) ELSE v

\* C10: the list returned with sort_values is a permutation of the list
\* returned without it, in non-decreasing order of the sort key; the values
\* keep their casing, and values with equal sort keys keep their first-seen
\* order.
C10_SortedMode ==
    (upc = "returned" /\ uprev.called /\ uargs.sort_values /\ ~uprev.sort_values) =>
        /\ uargs.exactly_once = uprev.exactly_once
        /\ Len(uvalues) = Len(uprev.values)
        /\ Range(uvalues) = Range(uprev.values)
        /\ \A i, j \in 1..Len(uvalues) :
             i < j =>
               /\ ~StrLess(ClaimedSortKey(uvalues[j]), ClaimedSortKey(uvalues[i]))
               /\ ClaimedSortKey(uvalues[i]) = ClaimedSortKey(uvalues[j])
                    => PlaceIn(uprev.values, uvalues[i]) < PlaceIn(uprev.values, uvalues[j])

\* "B" was seen before "a": the case-insensitive sort returned "a" before
\* "B", the casing kept.
C10_Witness ==
    /\ upc = "returned" /\ uprev.called /\ uargs.sort_values /\ ~uprev.sort_values
    /\ uargs.case_insensitive
    /\ uprev.values = <<ValUpperB, ValA>>
    /\ uvalues = <<ValA, ValUpperB>>

\* The rows processed so far that have a non-empty trimmed value
Processed == {i \in UniqueRows : i <= upos /\ TargetValue(i) # <<>>}

InPass == upc \in {"dict", "reader", "select", "returned"}

\* C15: in every state of the accumulation pass the keys recorded are the
\* normalized keys of the rows processed so far; the display value of a key is
\* the trimmed, un-normalized value of the first processed row with that key;
\* `order` lists the keys by their first rows; the count of a key is the
\* number of processed rows with it.  Hence a later row with a known key adds
\* one to its count and changes neither its display value nor its place.
C15_DisplayFirstSeen ==
    InPass =>
        /\ Len(seen) = Cardinality(Processed)
        /\ \A n \in 1..Len(seen) : KeyOf(seen[n]) \in DOMAIN display
        /\ \A k \in DOMAIN display :
             /\ \E n \in 1..Len(seen) :
                  /\ KeyOf(seen[n]) = k
                  /\ \A m \in 1..(n - 1) : KeyOf(seen[m]) # k
                  /\ display[k] = seen[n]
             /\ counts[k] = Cardinality({n \in 1..Len(seen) : KeyOf(seen[n]) = k})
        /\ Range(order) = DOMAIN display
        /\ \A m, n \in 1..Len(order) :
             m < n => \E i \in 1..Len(seen) :
                        /\ KeyOf(seen[i]) = order[m]
                        /\ \A j \in 1..i : KeyOf(seen[j]) # order[n]

\* In the middle of a case-insensitive pass a key was met a second time in
\* another casing, after a second key: its count is 2, its display value the
\* first casing, its place the first.
C15_Witness ==
    /\ upc \in {"dict", "reader"}
    /\ uargs.case_insensitive
    /\ Len(seen) = 3
    /\ seen[1] # seen[3]
    /\ KeyOf(seen[1]) = KeyOf(seen[3])
    /\ order = <<KeyOf(seen[1]), KeyOf(seen[2])>>
    /\ display[order[1]] = seen[1]
    /\ counts[order[1]] = 2

RECURSIVE SumCounts(_)
\* The sum of counts[k] over the keys of S
SumCounts(S) ==
    IF S = {} THEN 0
    ELSE LET k == CHOOSE x \in S : TRUE IN counts[k] + SumCounts(S \ {k})

\* C16: after any number of rows `order` has no duplicate, `counts`,
\* `display` and `order` have the same keys, every count is at least 1, the
\* normalized display value of a key is the key, and the counts sum to the
\* number of processed rows with a non-empty trimmed value.
C16_TableConsistency ==
    /\ \A i, j \in 1..Len(order) : i # j => order[i] # order[j]
    /\ DOMAIN counts = DOMAIN display
    /\ DOMAIN counts = Range(order)
    /\ \A k \in DOMAIN counts : counts[k] >= 1
    /\ \A k \in DOMAIN display : Fold(Strip(display[k]), uargs.case_insensitive) = k
    /\ SumCounts(DOMAIN counts) = Cardinality(Processed)

\* Three rows were processed, one with an empty value and two with one key:
\* one key, counted twice.
C16_Witness ==
    /\ upc \in {"dict", "reader"}
    /\ Cardinality({i \in UniqueRows : i <= upos}) = 3
    /\ Cardinality(Processed) = 2
    /\ Len(order) = 1
    /\ counts[order[1]] = 2

(***************************************************************************)
(* main of unique_values.py                                                *)
(***************************************************************************)
ValComma == <<"a", ",", "b">>
LabelZ == <<"z">>

UniqueCli ==
    [ column : {None, Some(ColV)},
      no_header : BOOLEAN,
      case_insensitive : BOOLEAN,
      sort : BOOLEAN,
      exactly_once : BOOLEAN,
      format : {"csv", "txt"},
      output_header : {None, Some(ColV), Some(LabelZ)} ]

UniqueToolInputs ==
    { [exists |-> FALSE, recs |-> <<>>],
      [exists |-> TRUE,
       recs |-> << <<ColV, ColX>>, <<ValUpperB, ValA>>, <<ValA>>, <<ValB, ValA>> >>],
      [exists |-> TRUE, recs |-> << <<ColV>>, <<ValComma>>, <<ValA>> >>],
      [exists |-> TRUE,
       recs |-> << <<ColX, ColV>>, <<ValAPadded, ValUpperB>>, <<>>, <<ValA, Empty>> >>] }

VARIABLES
    ucli,     \* the parsed command line (argparse's namespace)
    umpc,     \* where main is
    ustatus,  \* main's return value, -1 while it runs
    uOut,     \* the file at --output: [exists, lines]
    umprev    \* the outcome of the run before this one, if any

umvars == <<ucli, umpc, ustatus, uOut, umprev>>

IdleUniqueArgs ==
    [column |-> None, no_header |-> FALSE, case_insensitive |-> FALSE,
     sort_values |-> FALSE, exactly_once |-> FALSE]

IdleUniqueCli ==
    [column |-> None, no_header |-> FALSE, case_insensitive |-> FALSE,
     sort |-> FALSE, exactly_once |-> FALSE, format |-> "csv",
     output_header |-> None]

NoUniqueRun == [called |-> FALSE, values |-> <<>>]

UniqueMainIdle ==
    /\ ucli = IdleUniqueCli
    /\ umpc = "idle"
    /\ ustatus = -1
    /\ uOut = [exists |-> FALSE, lines |-> <<>>]
    /\ umprev = NoUniqueRun

UniqueMainInit ==
    /\ ucli \in UniqueCli
    /\ umpc = "start"
    /\ ustatus = -1
    /\ uOut = [exists |-> FALSE, lines |-> <<>>]
    /\ umprev = NoUniqueRun
    /\ uFile \in UniqueToolInputs
    /\ uargs = IdleUniqueArgs
    /\ uprev = NoUniqueCall
    /\ UniqueStart("idle")

\* lines 130-138: read_unique_values is called with the command line's values
UniqueMainRead ==
    /\ umpc = "start"
    /\ uargs' = [column |-> ucli.column, no_header |-> ucli.no_header,
                 case_insensitive |-> ucli.case_insensitive,
                 sort_values |-> ucli.sort, exactly_once |-> ucli.exactly_once]
    /\ upc' = "entry"
    /\ umpc' = "read_unique_values"
    /\ UNCHANGED <<ucli, ustatus, uOut, umprev, uFile, ufieldnames, col, upos,
                   counts, order, display, uvalues, seen, uprev>>

\* line 139: args.output_header or args.column or "value"
HeaderLabel(output_header, column) ==
    IF output_header.some /\ output_header.v # <<>> THEN output_header.v
    ELSE IF column.some /\ column.v # <<>> THEN column.v
    ELSE DefaultColumn

WriteOutputNoHeaderLine(list, fmt, header) ==
    IF fmt = "txt" THEN list
    ELSE [i \in 1..Len(list) |-> WriterLine(<<list[i]>>)]

\* lines 98-109: the lines write_output writes: as text every value on a
\* line of its own, as it is; as CSV a header line (`header or "value"`) and
\* one record per value
WriteOutput(list, fmt, header) ==
    IF fmt = "txt" THEN list
    ELSE <<WriterLine(<<IF header # <<>> THEN header ELSE DefaultColumn>>)>>
         \o [i \in 1..Len(list) |-> WriterLine(<<list[i]>>)]

\* lines 139-141: the values are written, main returns 0
UniqueMainWrote ==
    /\ umpc = "read_unique_values"
    /\ upc = "returned"
    /\ uOut' = [exists |-> TRUE,
                lines |-> WriteOutput(uvalues, ucli.format,
                                      HeaderLabel(ucli.output_header, ucli.column))]
    /\ ustatus' = 0
    /\ umpc' = "exit"
    /\ UNCHANGED <<ucli, umprev, uvars>>

\* lines 142-144: `except Exception`
UniqueMainError ==
    /\ umpc = "read_unique_values"
    /\ upc \in {"FileNotFoundError", "ValueError"}
    /\ ustatus' = 1
    /\ umpc' = "exit"
    /\ UNCHANGED <<ucli, uOut, umprev, uvars>>

\* lines 112-128: main returned 0; it is run again with the same options on
\* the file it wrote (read with the delimiter ","), the output going to a new
\* file.
UniqueMainOnOutput ==
    /\ umpc = "exit"
    /\ ustatus = 0
    /\ ~umprev.called
    /\ umprev' = [called |-> TRUE, values |-> uvalues]
    /\ uFile' = [exists |-> TRUE,
                 recs |-> [i \in 1..Len(uOut.lines) |-> ReaderRecord(uOut.lines[i])]]
    /\ uOut' = [exists |-> FALSE, lines |-> <<>>]
    /\ umpc' = "start"
    /\ ustatus' = -1
    /\ uargs' = IdleUniqueArgs
    /\ upc' = "idle"
    /\ ufieldnames' = <<>>
    /\ col' = <<>>
    /\ upos' = 0
    /\ counts' = EmptyDict
    /\ order' = <<>>
    /\ display' = EmptyDict
    /\ uvalues' = <<>>
    /\ seen' = <<>>
    /\ UNCHANGED <<ucli, uprev>>

ReadAsWritten ==
    \/ /\ ucli.format = "csv"
       /\ ~ucli.no_header
       /\ (ucli.column.some /\ ucli.column.v # <<>>)
             => HeaderLabel(ucli.output_header, ucli.column) = ucli.column.v
    \/ /\ ucli.format = "txt"
       /\ ucli.no_header
       /\ \A v \in Range(umprev.values) : "," \notin Range(v) /\ Quote \notin Range(v)

vars == <<fvars, svars, mvars, uvars, umvars>>

\* stream_filter_csv called on any input with any arguments
Init == FilterInit /\ SkuIdle /\ MainIdle /\ UniqueIdle /\ UniqueMainIdle
Next ==
    \/ FilterEntry /\ UNCHANGED <<svars, mvars, uvars, umvars>>
    \/ FilterOpen /\ UNCHANGED <<svars, mvars, uvars, umvars>>
    \/ FilterRow /\ UNCHANGED <<svars, mvars, uvars, umvars>>
    \/ FilterReturn /\ UNCHANGED <<svars, mvars, uvars, umvars>>
    \/ FilterAgain /\ UNCHANGED <<svars, mvars, uvars, umvars>>
    \/ FilterOnOutput /\ UNCHANGED <<svars, mvars, uvars, umvars>>
Spec == Init /\ [][Next]_vars

\* read_sku_list called with any literals and key file
SkuSpecInit == SkuInit /\ FilterIdle /\ MainIdle /\ UniqueIdle /\ UniqueMainIdle
SkuSpecNext ==
    \/ SkuFromValues /\ UNCHANGED <<fvars, mvars, uvars, umvars>>
    \/ SkuOpenFile /\ UNCHANGED <<fvars, mvars, uvars, umvars>>
    \/ SkuRow /\ UNCHANGED <<fvars, mvars, uvars, umvars>>
    \/ SkuElseLines /\ UNCHANGED <<fvars, mvars, uvars, umvars>>
    \/ SkuExceptLines /\ UNCHANGED <<fvars, mvars, uvars, umvars>>
SkuSpec == SkuSpecInit /\ [][SkuSpecNext]_vars

\* main of filter_by_sku.py, with the calls it makes
MainSpecInit == MainInit /\ UniqueIdle /\ UniqueMainIdle
MainSpecNext ==
    \/ MainReadSkuList /\ UNCHANGED <<uvars, umvars>>
    \/ MainNoCriteria /\ UNCHANGED <<uvars, umvars>>
    \/ MainStreamFilter /\ UNCHANGED <<uvars, umvars>>
    \/ MainWrote /\ UNCHANGED <<uvars, umvars>>
    \/ MainError /\ UNCHANGED <<uvars, umvars>>
    \/ MainRecased /\ UNCHANGED <<uvars, umvars>>
    \/ SkuFromValues /\ UNCHANGED <<fvars, mvars, uvars, umvars>>
    \/ SkuOpenFile /\ UNCHANGED <<fvars, mvars, uvars, umvars>>
    \/ SkuRow /\ UNCHANGED <<fvars, mvars, uvars, umvars>>
    \/ SkuElseLines /\ UNCHANGED <<fvars, mvars, uvars, umvars>>
    \/ SkuExceptLines /\ UNCHANGED <<fvars, mvars, uvars, umvars>>
    \/ FilterEntry /\ UNCHANGED <<svars, mvars, uvars, umvars>>
    \/ FilterOpen /\ UNCHANGED <<svars, mvars, uvars, umvars>>
    \/ FilterRow /\ UNCHANGED <<svars, mvars, uvars, umvars>>
    \/ FilterReturn /\ UNCHANGED <<svars, mvars, uvars, umvars>>
MainSpec == MainSpecInit /\ [][MainSpecNext]_vars

\* read_unique_values called on any input with any arguments
UniqueSpecInit == UniqueInit /\ FilterIdle /\ SkuIdle /\ MainIdle /\ UniqueMainIdle
UniqueSpecNext ==
    \/ UniqueEntry /\ UNCHANGED <<fvars, svars, mvars, umvars>>
    \/ UniqueOpen /\ UNCHANGED <<fvars, svars, mvars, umvars>>
    \/ UniqueDictRow /\ UNCHANGED <<fvars, svars, mvars, umvars>>
    \/ UniqueReaderRow /\ UNCHANGED <<fvars, svars, mvars, umvars>>
    \/ UniqueSelect /\ UNCHANGED <<fvars, svars, mvars, umvars>>
    \/ UniqueAgain /\ UNCHANGED <<fvars, svars, mvars, umvars>>
UniqueSpec == UniqueSpecInit /\ [][UniqueSpecNext]_vars

\* main of unique_values.py, with the call it makes
UniqueMainSpecInit == UniqueMainInit /\ FilterIdle /\ SkuIdle /\ MainIdle
UniqueMainSpecNext ==
    \/ UniqueMainRead /\ UNCHANGED <<fvars, svars, mvars>>
    \/ UniqueMainWrote /\ UNCHANGED <<fvars, svars, mvars>>
    \/ UniqueMainError /\ UNCHANGED <<fvars, svars, mvars>>
    \/ UniqueMainOnOutput /\ UNCHANGED <<fvars, svars, mvars>>
    \/ UniqueEntry /\ UNCHANGED <<fvars, svars, mvars, umvars>>
    \/ UniqueOpen /\ UNCHANGED <<fvars, svars, mvars, umvars>>
    \/ UniqueDictRow /\ UNCHANGED <<fvars, svars, mvars, umvars>>
    \/ UniqueReaderRow /\ UNCHANGED <<fvars, svars, mvars, umvars>>
    \/ UniqueSelect /\ UNCHANGED <<fvars, svars, mvars, umvars>>
UniqueMainSpec == UniqueMainSpecInit /\ [][UniqueMainSpecNext]_vars

====
